---- MODULE Spec2Model ----
(***************************************************************************)
(* Model of streamlit_app.py: one Streamlit script run per action.  The    *)
(* sidebar widgets are the state that survives a run; a run with the       *)
(* button pressed validates the inputs, issues the GET, and on a usable    *)
(* response builds the DataFrame, groups it by date and renders the        *)
(* per-day charts and the statistics.                                      *)
(*                                                                         *)
(* Numbers of a float column are either NaN, written << >>, or an exact    *)
(* rational << n, d >> in lowest terms with d > 0 (every value the         *)
(* pipeline produces from integer readings is a multiple of 1/16, which    *)
(* binary floating point holds exactly).  An optional integer is << >> or  *)
(* << v >>.  Sequences are 1-based: index i of the source is position i+1. *)
(***************************************************************************)
EXTENDS Integers, Sequences, FiniteSets, TLC

\* ---------------------------------------------------------------- bounds
\* longest response body (number of entries) the transport returns
MaxEntries == 2
\* longest single-day sgv column of the signal specification
MaxLen == 9

\* ------------------------------------------------------ program constants
\* added to the end date's midnight: the last millisecond of that day
EndOfDayMs == 86399999
\* milliseconds per calendar day (to_datetime(unit='ms') / .dt.date)
DayMs == 86400000
\* rolling(window=4)
Window == 4
\* the "count" query parameter
Count == 10000

\* ----------------------------------------------------------- input sets
\* glucose values of well-formed entries
SGV == {100, 110}
\* the `date` field of well-formed entries (epoch milliseconds): one hour
\* before the end of day 0, one hour into day 1, one hour into day 2
Timestamps == {DayMs - 3600000, DayMs + 3600000, 2 * DayMs + 3600000}
\* calendar dates the operator can pick (days since the epoch)
Dates == {0, 1, 2}
\* offset of the operator's local zone from UTC, in milliseconds (UTC, UTC+2)
TZOffsets == {0, 7200000}
\* status codes of the final response
StatusCodes == {200, 300, 404, 503}
\* sgv values of the signal specification
SignalSGV == {100, 105}

\* ------------------------------------------------------------ arithmetic
NaN == << >>

IsNaN(x) == x = << >>

Abs(n) == IF n < 0 THEN -n ELSE n

RECURSIVE GCD(_, _)
GCD(a, b) == IF b = 0 THEN a ELSE GCD(b, a % b)

\* the rational n/d in lowest terms, d > 0
Norm(n, d) ==
    LET g == GCD(Abs(n), Abs(d))
        s == IF d < 0 THEN -1 ELSE 1
    IN  << (s * n) \div g, (s * d) \div g >>

Float(n) == << n, 1 >>

\* a - b on floats; NaN propagates
Sub(a, b) ==
    IF IsNaN(a) \/ IsNaN(b) THEN NaN
    ELSE Norm(a[1] * b[2] - b[1] * a[2], a[2] * b[2])

Add(a, b) ==
    IF IsNaN(a) \/ IsNaN(b) THEN NaN
    ELSE Norm(a[1] * b[2] + b[1] * a[2], a[2] * b[2])

\* ------------------------------------------------ Series.diff / rolling
\* Series.diff(): the first position has no predecessor
Diff(s) ==
    [i \in 1..Len(s) |-> IF i = 1 THEN NaN ELSE Sub(s[i], s[i - 1])]

\* sum of the non-NaN values of s at positions lo..hi
RECURSIVE WindowSum(_, _, _)
WindowSum(s, lo, hi) ==
    IF lo > hi THEN Float(0)
    ELSE IF IsNaN(s[hi]) THEN WindowSum(s, lo, hi - 1)
    ELSE Add(WindowSum(s, lo, hi - 1), s[hi])

\* number of non-NaN observations of s at positions lo..hi
WindowObs(s, lo, hi) == Cardinality({j \in lo..hi : ~IsNaN(s[j])})

\* RollingMean as it would be with min_periods = 1
RollingMeanMinPeriodsOne(s, w) ==
    [i \in 1..Len(s) |->
        LET lo == IF i - w + 1 < 1 THEN 1 ELSE i - w + 1
            nobs == WindowObs(s, lo, i)
            sum == WindowSum(s, lo, i)
        IN  IF nobs >= 1 THEN Norm(sum[1], sum[2] * nobs) ELSE NaN]

\* Series.rolling(window=w).mean(): trailing window, min_periods = w
RollingMean(s, w) ==
    [i \in 1..Len(s) |->
        LET lo == IF i - w + 1 < 1 THEN 1 ELSE i - w + 1
            nobs == WindowObs(s, lo, i)
            sum == WindowSum(s, lo, i)
        IN  IF nobs >= w THEN Norm(sum[1], sum[2] * nobs) ELSE NaN]

\* ------------------------------------------------------------ DataFrame
\* an entry of the response body: each field is << >> when the key is absent
Entry == [date : {<< >>} \cup {<< t >> : t \in Timestamps},
          sgv : {<< >>} \cup {<< v >> : v \in SGV}]

\* the sequences over S of length at most n
SeqsUpTo(S, n) == UNION {[1..k -> S] : k \in 0..n}

\* a column exists in pd.DataFrame(entries) iff some entry carries the key
HasColumn(es, c) == \E i \in 1..Len(es) : es[i][c] # << >>

\* pd.DataFrame(entries): one row per entry, in response order; a key an
\* entry lacks is NaN in its row
DataFrame(es) ==
    [i \in 1..Len(es) |->
        [index |-> i,
         date |-> es[i].date,
         sgv |-> IF es[i].sgv = << >> THEN NaN ELSE Float(es[i].sgv[1]),
         dateTime |-> << >>]]

\* pd.to_datetime(ms, unit='ms'): the naive UTC wall-clock time, as
\* << days since the epoch, millisecond of the day >>; NaN gives NaT (<< >>)
ToDatetime(ms) ==
    IF ms = << >> THEN << >> ELSE << ms[1] \div DayMs, ms[1] % DayMs >>

\* df['dateTime'] = pd.to_datetime(df['date'], unit='ms')
WithDateTime(rows) ==
    [i \in 1..Len(rows) |-> [rows[i] EXCEPT !.dateTime = ToDatetime(rows[i].date)]]

\* a sorts strictly before b; NaT sorts last
DtLess(a, b) ==
    /\ a # << >>
    /\ \/ b = << >>
       \/ a[1] < b[1]
       \/ a[1] = b[1] /\ a[2] < b[2]

\* df.sort_values('dateTime'): ascending, NaT last; frames this small are
\* insertion-sorted, so equal keys keep their order
SortValues(rows) ==
    LET n == Len(rows)
        Before(j, i) ==
            \/ DtLess(rows[j].dateTime, rows[i].dateTime)
            \/ ~DtLess(rows[i].dateTime, rows[j].dateTime) /\ j < i
        Rank(i) == Cardinality({j \in 1..n : Before(j, i)}) + 1
    IN  [p \in 1..n |-> rows[CHOOSE i \in 1..n : Rank(i) = p]]

\* Series.dt.date of one value: the calendar date of the naive UTC time
DateKey(dt) == IF dt = << >> THEN << >> ELSE << dt[1] >>

\* df['date'] = df['dateTime'].dt.date
WithDate(rows) ==
    [i \in 1..Len(rows) |-> [rows[i] EXCEPT !.date = DateKey(rows[i].dateTime)]]

\* lines 117-129: the frame the loop and the statistics read
BuildFrame(es) == WithDate(SortValues(WithDateTime(DataFrame(es))))

\* the elements of a finite set of integers in ascending order
Ascending(S) ==
    [p \in 1..Cardinality(S) |->
        CHOOSE k \in S : Cardinality({x \in S : x < k}) = p - 1]

\* KeyOrder as it would be with the keys iterated newest first
KeyOrderDescending(S) ==
    [p \in 1..Cardinality(S) |-> Ascending(S)[Cardinality(S) + 1 - p]]

\* the order in which groupby iterates its keys
KeyOrder(S) == Ascending(S)

\* df.groupby('date'): one group per distinct non-null date (dropna=True),
\* each the positions of its rows in frame order
GroupBy(rows) ==
    LET keys == {rows[i].date[1] : i \in {j \in 1..Len(rows) : rows[j].date # << >>}}
        order == KeyOrder(keys)
        positions == [i \in 1..Len(rows) |-> i]
    IN  [g \in 1..Len(order) |->
            [date |-> order[g],
             idx |-> SelectSeq(positions, LAMBDA i : rows[i].date = << order[g] >>)]]

\* group[c]: column c of the rows of a group
Col(rows, idx, c) == [k \in 1..Len(idx) |-> rows[idx[k]][c]]

\* FirstDerivative as it would be with diff() taken on the whole frame
\* before grouping
FirstDerivativeWholeFrame(rows, idx) ==
    LET d == Diff([i \in 1..Len(rows) |-> rows[i].sgv])
    IN  [k \in 1..Len(idx) |-> d[idx[k]]]

\* group['sgv'].diff()
FirstDerivative(rows, idx) == Diff(Col(rows, idx, "sgv"))

\* lines 144-162: the derived columns of one group
GroupColumns(rows, idx) ==
    LET sgv_diff == FirstDerivative(rows, idx)
        sgv_diff_smooth == RollingMean(sgv_diff, Window)
        sgv_diff2 == Diff(sgv_diff_smooth)
        sgv_diff2_smooth == RollingMean(sgv_diff2, Window)
    IN  [sgv_diff |-> sgv_diff, sgv_diff_smooth |-> sgv_diff_smooth,
         sgv_diff2 |-> sgv_diff2, sgv_diff2_smooth |-> sgv_diff2_smooth]

\* ------------------------------------------------------------ rendering
\* one thing a run shows the operator
Item(kind, what, date, data) ==
    [kind |-> kind, what |-> what, date |-> date, data |-> data]

\* the (x, y) pairs ax.plot receives
Points(x, y) == [i \in 1..Len(x) |-> << x[i], y[i] >>]

\* the columns of a group the loop has not reached
NoColumns ==
    [sgv_diff |-> << >>, sgv_diff_smooth |-> << >>,
     sgv_diff2 |-> << >>, sgv_diff2_smooth |-> << >>]

\* lines 133-171: what one iteration of the loop shows
RenderGroup(rows, g) ==
    LET x == Col(rows, g.idx, "dateTime")
        c == GroupColumns(rows, g.idx)
    IN  << Item("subheader", "Glucose Levels", << g.date >>, << >>),
           Item("chart", "raw", << g.date >>, Points(x, Col(rows, g.idx, "sgv"))),
           Item("subheader", "First Derivative (Smoothed)", << g.date >>, << >>),
           Item("chart", "first", << g.date >>, Points(x, c.sgv_diff_smooth)),
           Item("subheader", "Second Derivative", << g.date >>, << >>),
           Item("chart", "second", << g.date >>, Points(x, c.sgv_diff2_smooth)) >>

\* the loop over the groups, in iteration order
RECURSIVE RenderGroups(_, _, _)
RenderGroups(rows, gs, k) ==
    IF k > Len(gs) THEN << >>
    ELSE RenderGroup(rows, gs[k]) \o RenderGroups(rows, gs, k + 1)

\* ----------------------------------------------------------- statistics
\* the non-NaN values of df['sgv'] (min, max, mean and std skip NaN)
Observed(rows) ==
    LET col == Col(rows, [i \in 1..Len(rows) |-> i], "sgv")
        kept == SelectSeq(col, LAMBDA v : ~IsNaN(v))
    IN  [i \in 1..Len(kept) |-> kept[i][1]]

RECURSIVE SumSeq(_, _)
SumSeq(xs, k) == IF k = 0 THEN 0 ELSE xs[k] + SumSeq(xs, k - 1)

SeqMin(xs) == CHOOSE m \in {xs[i] : i \in 1..Len(xs)} : \A i \in 1..Len(xs) : m <= xs[i]

SeqMax(xs) == CHOOSE m \in {xs[i] : i \in 1..Len(xs)} : \A i \in 1..Len(xs) : m >= xs[i]

\* the mean in hundredths, as f"{mean:.2f}" rounds it (ties to even)
MeanCents(xs) ==
    LET n == Len(xs)
        q == (100 * SumSeq(xs, n)) \div n
        r == (100 * SumSeq(xs, n)) % n
    IN  IF 2 * r < n THEN << q >>
        ELSE IF 2 * r > n THEN << q + 1 >>
        ELSE IF q % 2 = 0 THEN << q >> ELSE << q + 1 >>

\* the integer square root of n, by Newton's iteration downwards from x >= it
RECURSIVE ISqrtFrom(_, _)
ISqrtFrom(n, x) ==
    LET y == (x + n \div x) \div 2
    IN  IF y >= x THEN x ELSE ISqrtFrom(n, y)

\* the sample standard deviation (ddof = 1) in hundredths, rounded to the
\* nearest as f"{std:.2f}" does; nan (<< >>) for a single observation.
\* With a/b the sample variance, round(100 * sqrt(a/b)) is
\* (isqrt(40000 * a / b) + 1) \div 2.
StdCents(xs) ==
    LET n == Len(xs)
        sq == [i \in 1..n |-> xs[i] * xs[i]]
        a == n * SumSeq(sq, n) - SumSeq(xs, n) * SumSeq(xs, n)
        b == n * (n - 1)
        top == 200 * (SeqMax(xs) - SeqMin(xs)) + 1
    IN  IF n < 2 THEN << >>
        ELSE IF a = 0 THEN << 0 >>
        ELSE << (ISqrtFrom((40000 * a) \div b, top) + 1) \div 2 >>

\* lines 174-178
RenderStatistics(rows) ==
    LET xs == Observed(rows)
    IN  << Item("subheader", "Glucose Statistics (Selected Date Range)", << >>, << >>),
           Item("write", "Minimum BG", << >>, << SeqMin(xs) >>),
           Item("write", "Maximum BG", << >>, << SeqMax(xs) >>),
           Item("write", "Average BG", << >>, MeanCents(xs)),
           Item("write", "Standard Deviation", << >>, StdCents(xs)) >>

\* ---------------------------------------------------------------- state
VARIABLES
    base_url,      \* sidebar text input
    auth_option,   \* sidebar selectbox
    api_secret,    \* text input rendered only in "API Secret" mode
    jwt_token,     \* text input rendered only in "JWT Token" mode
    start_date,    \* sidebar date input, days since the epoch
    end_date,      \* sidebar date input
    tz,            \* offset of the operator's local zone from UTC (ms)
    pc,            \* "idle" between runs, "get" while requests.get blocks
    sent,          \* the requests this run issued
    status_code,   \* response.status_code of this run, << >> without a response
    entries,       \* << response.json() >> once parsed, << >> before
    df,            \* the DataFrame of this run
    grouped,       \* the groups of this run with the columns the loop added
    out,           \* what this run has shown, in order
    day_sgv,       \* signal specification: group['sgv'] of one day
    day_cols,      \* signal specification: the columns derived from it
    stage          \* signal specification: how far the loop body has run

config == << base_url, auth_option, api_secret, jwt_token, start_date, end_date, tz >>
cycle == << pc, sent, status_code, entries, df, grouped, out >>
signal == << day_sgv, day_cols, stage >>
vars == << config, cycle, signal >>

\* a name the script has not bound (the widget of the other mode)
Unbound == "(unbound)"
URLs == {"", "https://your-nightscout-url.com"}
Secrets == {"", "s3cr3t"}
Tokens == {"", "eyJ.jwt"}
AuthOptions == {"API Secret", "JWT Token"}

\* lines 35-52
headers ==
    IF auth_option = "API Secret"
    THEN IF api_secret # "" THEN {<< "api-secret", << api_secret >> >>} ELSE {}
    ELSE IF auth_option = "JWT Token"
    THEN IF jwt_token # "" THEN {<< "Authorization", << "Bearer ", jwt_token >> >>} ELSE {}
    ELSE {}

\* time.mktime of the local midnight of day d, in milliseconds
LocalMidnight(d) == d * DayMs - tz

start_date_unix == LocalMidnight(start_date)

end_date_unix == LocalMidnight(end_date) + EndOfDayMs

params ==
    [gte |-> start_date_unix, lte |-> end_date_unix, type |-> "sgv", count |-> Count]

\* requests.get(entries_url, headers=headers, params=params)
Request ==
    [url |-> << base_url, "/api/v1/entries.json" >>, headers |-> headers, params |-> params]

\* CredentialMissing as it would be with the JWT branch forgotten
CredentialMissingSecretOnly == auth_option = "API Secret" /\ api_secret = ""

\* lines 78-80
CredentialMissing ==
    \/ auth_option = "API Secret" /\ api_secret = ""
    \/ auth_option = "JWT Token" /\ jwt_token = ""

\* lines 75-80: the button handler goes on to the request
InputsValid == base_url # "" /\ ~CredentialMissing

\* what the transport can answer: no response at all (requests.get raises),
\* or a final status with a body that is no JSON (<< >>) or a list of entries
Bodies == {<< >>} \cup {<< es >> : es \in SeqsUpTo(Entry, MaxEntries)}

\* RaisesForStatus as it would be with only server errors raised
RaisesForStatusServerOnly(c) == 500 <= c /\ c < 600

\* Response.raise_for_status() raises HTTPError for 4xx and 5xx
RaisesForStatus(c) == 400 <= c /\ c < 600

Responses ==
    {[status |-> << >>, body |-> << >>]}
    \cup {[status |-> << c >>, body |-> << >>] : c \in StatusCodes}
    \cup {[status |-> << c >>, body |-> b] :
            c \in {x \in StatusCodes : ~RaisesForStatus(x)}, b \in Bodies}

Info == Item("info", "Enter your Nightscout API details", << >>, << >>)

Error(what, data) == Item("error", what, << >>, data)

\* NoEntries as it would be with the test written `entries is None`
NoEntriesIsNone(es) == FALSE

\* line 112: `not entries`
NoEntries(es) == es = << >>

\* lines 112-178 on the parsed body
Process(es) ==
    IF NoEntries(es)
    THEN [df |-> << >>, grouped |-> << >>,
          out |-> << Item("warning", "No glucose entries found", << >>, << >>) >>]
    ELSE IF ~HasColumn(es, "date")
    THEN [df |-> DataFrame(es), grouped |-> << >>,
          out |-> << Error("An error occurred: KeyError 'date'", << >>) >>]
    ELSE LET rows == BuildFrame(es)
             gs == GroupBy(rows)
         IN  IF ~HasColumn(es, "sgv")
             THEN [df |-> rows,
                   grouped |-> [g \in 1..Len(gs) |->
                                   [date |-> gs[g].date, idx |-> gs[g].idx,
                                    cols |-> NoColumns]],
                   out |-> << Item("subheader", "Glucose Levels", << gs[1].date >>, << >>),
                              Error("An error occurred: KeyError 'sgv'", << >>) >>]
             ELSE [df |-> rows,
                   grouped |-> [g \in 1..Len(gs) |->
                                   [date |-> gs[g].date, idx |-> gs[g].idx,
                                    cols |-> GroupColumns(rows, gs[g].idx)]],
                   out |-> RenderGroups(rows, gs, 1) \o RenderStatistics(rows)]

\* lines 103-183 on the transport's answer
Handle(resp) ==
    IF resp.status = << >>
    THEN [status_code |-> << >>, entries |-> << >>, df |-> << >>, grouped |-> << >>,
          out |-> << Error("An error occurred: ConnectionError", << >>) >>]
    ELSE IF RaisesForStatus(resp.status[1])
    THEN [status_code |-> resp.status, entries |-> << >>, df |-> << >>, grouped |-> << >>,
          out |-> << Error("HTTP error occurred", resp.status) >>]
    ELSE IF resp.body = << >>
    THEN [status_code |-> resp.status, entries |-> << >>, df |-> << >>, grouped |-> << >>,
          out |-> << Error("An error occurred: JSONDecodeError", << >>) >>]
    ELSE LET p == Process(resp.body[1])
         IN  [status_code |-> resp.status, entries |-> resp.body,
              df |-> p.df, grouped |-> p.grouped, out |-> p.out]

\* the first run of the script: widget defaults, button not pressed
Init ==
    /\ base_url = "https://your-nightscout-url.com"
    /\ auth_option = "API Secret"
    /\ api_secret = ""
    /\ jwt_token = Unbound
    /\ start_date = 0
    /\ end_date = 2
    /\ tz \in TZOffsets
    /\ pc = "idle"
    /\ sent = << >>
    /\ status_code = << >>
    /\ entries = << >>
    /\ df = << >>
    /\ grouped = << >>
    /\ out = << Info >>
    /\ day_sgv = << >>
    /\ day_cols = NoColumns
    /\ stage = "raw"

\* a script run starts from nothing: no name of the previous run is bound
\* and nothing of it stays on the page
Fresh ==
    /\ status_code' = << >>
    /\ entries' = << >>
    /\ df' = << >>
    /\ grouped' = << >>

\* a script run without the button: only the info notice is shown (line 185)
Rerun ==
    /\ pc = "idle"
    /\ Fresh
    /\ sent' = << >>
    /\ out' = << Info >>
    /\ UNCHANGED << tz, pc, signal >>

SetBaseUrl ==
    /\ \E u \in URLs \ {base_url} : base_url' = u
    /\ UNCHANGED << auth_option, api_secret, jwt_token, start_date, end_date >>
    /\ Rerun

\* the text input of the mode now selected appears with its default ""
SelectAuth ==
    /\ \E a \in AuthOptions \ {auth_option} :
          /\ auth_option' = a
          /\ api_secret' = IF a = "API Secret" THEN "" ELSE Unbound
          /\ jwt_token' = IF a = "JWT Token" THEN "" ELSE Unbound
    /\ UNCHANGED << base_url, start_date, end_date >>
    /\ Rerun

SetApiSecret ==
    /\ auth_option = "API Secret"
    /\ \E c \in Secrets \ {api_secret} : api_secret' = c
    /\ UNCHANGED << base_url, auth_option, jwt_token, start_date, end_date >>
    /\ Rerun

SetJwtToken ==
    /\ auth_option = "JWT Token"
    /\ \E c \in Tokens \ {jwt_token} : jwt_token' = c
    /\ UNCHANGED << base_url, auth_option, api_secret, start_date, end_date >>
    /\ Rerun

SetStartDate ==
    /\ \E d \in Dates \ {start_date} : start_date' = d
    /\ UNCHANGED << base_url, auth_option, api_secret, jwt_token, end_date >>
    /\ Rerun

SetEndDate ==
    /\ \E d \in Dates \ {end_date} : end_date' = d
    /\ UNCHANGED << base_url, auth_option, api_secret, jwt_token, start_date >>
    /\ Rerun

\* button pressed, lines 75-82: a sidebar error and nothing else
FetchInvalid ==
    /\ pc = "idle"
    /\ ~InputsValid
    /\ Fresh
    /\ sent' = << >>
    /\ out' = IF base_url = ""
              THEN << Item("sidebar_error", "Please enter your Nightscout Base URL.", << >>, << >>) >>
              ELSE << Item("sidebar_error", "Please enter your credential", << >>, << auth_option >>) >>
    /\ UNCHANGED << config, pc, signal >>

\* button pressed, lines 83-103: the GET is issued and the run blocks in it
FetchGlucoseData ==
    /\ pc = "idle"
    /\ InputsValid
    /\ Fresh
    /\ sent' = << Request >>
    /\ out' = << >>
    /\ pc' = "get"
    /\ UNCHANGED << config, signal >>

\* requests.get returns or raises; lines 104-183 run to the end of the script
Respond ==
    /\ pc = "get"
    /\ \E resp \in Responses :
          \E h \in {Handle(resp)} :
              /\ status_code' = h.status_code
              /\ entries' = h.entries
              /\ df' = h.df
              /\ grouped' = h.grouped
              /\ out' = h.out
    /\ pc' = "idle"
    /\ UNCHANGED << config, sent, signal >>

Next ==
    \/ SetBaseUrl
    \/ SelectAuth
    \/ SetApiSecret
    \/ SetJwtToken
    \/ SetStartDate
    \/ SetEndDate
    \/ FetchInvalid
    \/ FetchGlucoseData
    \/ Respond

Spec == Init /\ [][Next]_vars

\* ------------------------------------------------- signal specification
\* The loop body of lines 143-162 on the sgv column of one day, for columns
\* longer than the responses of Spec.  A reading that lacks sgv is NaN in
\* the column, as in the frame.
SignalValues == {NaN} \cup {Float(v) : v \in SignalSGV}

WorkedExample == [i \in 1..7 |-> Float(<< 100, 105, 95, 110, 108, 120, 115 >>[i])]

SignalColumns == (SeqsUpTo(SignalValues, MaxLen) \ {<< >>}) \cup {WorkedExample}

\* a one-day frame holding the column, one reading every five minutes
OneDay(vals) ==
    [i \in 1..Len(vals) |->
        [index |-> i, date |-> << 1 >>, sgv |-> vals[i], dateTime |-> << 1, 300000 * i >>]]

InitSignal ==
    /\ base_url = "https://your-nightscout-url.com"
    /\ auth_option = "API Secret"
    /\ api_secret = ""
    /\ jwt_token = Unbound
    /\ start_date = 0
    /\ end_date = 2
    /\ tz = 0
    /\ pc = "idle"
    /\ sent = << >>
    /\ status_code = << >>
    /\ entries = << >>
    /\ df = << >>
    /\ grouped = << >>
    /\ out = << Info >>
    /\ day_sgv \in SignalColumns
    /\ day_cols = NoColumns
    /\ stage = "raw"

\* lines 144-147
ComputeFirstDerivative ==
    /\ stage = "raw"
    /\ \E c \in {GroupColumns(OneDay(day_sgv), [i \in 1..Len(day_sgv) |-> i])} :
          day_cols' = [NoColumns EXCEPT !.sgv_diff = c.sgv_diff,
                                        !.sgv_diff_smooth = c.sgv_diff_smooth]
    /\ stage' = "first"
    /\ UNCHANGED << config, cycle, day_sgv >>

\* lines 160-162
ComputeSecondDerivative ==
    /\ stage = "first"
    /\ day_cols' = GroupColumns(OneDay(day_sgv), [i \in 1..Len(day_sgv) |-> i])
    /\ stage' = "second"
    /\ UNCHANGED << config, cycle, day_sgv >>

NextSignal == ComputeFirstDerivative \/ ComputeSecondDerivative

SpecSignal == InitSignal /\ [][NextSignal]_vars

\* ================================================================ claims
\* the elements of a sequence
Range(q) == {q[i] : i \in 1..Len(q)}

\* the positions of out holding an item of the given kind
Positions(kind) == {i \in 1..Len(out) : out[i].kind = kind}

\* the run has ended, parsed a non-empty body and reported no error
Successful ==
    /\ pc = "idle"
    /\ entries # << >>
    /\ entries[1] # << >>
    /\ Positions("error") = {}

\* the UTC calendar days of the entries that carry a date
EntryDays ==
    {entries[1][i].date[1] \div DayMs :
        i \in {j \in 1..Len(entries[1]) : entries[1][j].date # << >>}}

\* ---------------------------------------------------------------- C1
\* C1: after a successful run every row of the frame that counts towards
\* the statistics (its sgv is a number) lies in exactly one group, the
\* groups hold rows of the frame only, and each group is charted; an empty
\* body leaves no frame and no group.
C1_Partition ==
    /\ (pc = "idle" /\ entries = << << >> >>) => (df = << >> /\ grouped = << >>)
    /\ Successful =>
          /\ \A i \in 1..Len(df) :
                ~IsNaN(df[i].sgv) =>
                    Cardinality({g \in 1..Len(grouped) : i \in Range(grouped[g].idx)}) = 1
          /\ UNION {Range(grouped[g].idx) : g \in 1..Len(grouped)} \subseteq 1..Len(df)
          /\ \A g \in 1..Len(grouped) :
                \E p \in Positions("chart") :
                    out[p].what = "raw" /\ out[p].date = << grouped[g].date >>

\* ---------------------------------------------------------------- C2
WellFormed(e) == e.date # << >> /\ e.sgv # << >>

\* C2: once a body holding a well-formed entry is parsed, no group holds a
\* row that lacks its sgv, and what the run shows is what it shows for the
\* body without its malformed entries.
C2_MalformedExcluded ==
    (pc = "idle" /\ entries # << >> /\ \E e \in Range(entries[1]) : WellFormed(e)) =>
        /\ \A g \in 1..Len(grouped) :
              \A k \in Range(grouped[g].idx) : ~IsNaN(df[k].sgv)
        /\ out = Process(SelectSeq(entries[1], WellFormed)).out

\* ---------------------------------------------------------------- C3
C3_InputsMissing ==
    \/ base_url = ""
    \/ auth_option = "API Secret" /\ api_secret = ""
    \/ auth_option = "JWT Token" /\ jwt_token = ""

C3_ExpectedHeaders ==
    IF auth_option = "API Secret"
    THEN {<< "api-secret", << api_secret >> >>}
    ELSE {<< "Authorization", << "Bearer ", jwt_token >> >>}

\* C3: a button press with the base URL or the selected mode's credential
\* empty ends the run with one sidebar error and no request; and whenever a
\* request has been issued, it is the only one of the run, the inputs were
\* complete and its headers are exactly the selected mode's credential.
C3_Validation ==
    /\ [](sent # << >> =>
            /\ Len(sent) = 1
            /\ ~C3_InputsMissing
            /\ sent[1].headers = C3_ExpectedHeaders)
    /\ [][(pc = "idle" /\ UNCHANGED config /\ C3_InputsMissing) =>
            /\ sent' = << >>
            /\ pc' = "idle"
            /\ Len(out') = 1
            /\ out'[1].kind = "sidebar_error"]_vars

\* a fetch was pressed in JWT mode with the token left empty
C3_Witness ==
    /\ auth_option = "JWT Token"
    /\ jwt_token = ""
    /\ base_url # ""
    /\ Len(out) = 1
    /\ out[1].kind = "sidebar_error"
    /\ sent = << >>

\* ---------------------------------------------------------------- C4
\* C4: with v the sgv column of one day (0-based index i at position i+1),
\* diff[0] is undefined and diff[i] = v[i] - v[i-1]; the smoothed first
\* derivative is undefined for i < 4 and for i >= 4 is the average of
\* diff[i-3..i], a missing value making every difference and average that
\* reads it undefined; for the worked example it is 2.0 at index 4.
C4_FirstDerivative ==
    stage \in {"first", "second"} =>
        LET n == Len(day_sgv)
            v(i) == day_sgv[i + 1]
            d(i) == day_cols.sgv_diff[i + 1]
            m(i) == day_cols.sgv_diff_smooth[i + 1]
            step(i) == v(i)[1] - v(i - 1)[1]
        IN  /\ Len(day_cols.sgv_diff) = n
            /\ Len(day_cols.sgv_diff_smooth) = n
            /\ d(0) = << >>
            /\ \A i \in 1..(n - 1) :
                  d(i) = IF v(i) = << >> \/ v(i - 1) = << >>
                         THEN << >>
                         ELSE << step(i), 1 >>
            /\ \A i \in 0..(n - 1) : i < 4 => m(i) = << >>
            /\ \A i \in 4..(n - 1) :
                  IF \E j \in (i - 4)..i : v(j) = << >>
                  THEN m(i) = << >>
                  ELSE /\ m(i) # << >>
                       /\ 4 * m(i)[1] =
                            (step(i - 3) + step(i - 2) + step(i - 1) + step(i)) * m(i)[2]
            /\ day_sgv = WorkedExample => m(4) = << 2, 1 >>

\* the worked example after the first-derivative step
C4_Witness ==
    /\ stage = "first"
    /\ day_sgv = WorkedExample
    /\ day_cols.sgv_diff = << << >>, << 5, 1 >>, << -10, 1 >>, << 15, 1 >>,
                              << -2, 1 >>, << 12, 1 >>, << -5, 1 >> >>
    /\ day_cols.sgv_diff_smooth[5] = << 2, 1 >>

\* ---------------------------------------------------------------- C5
\* C5: in a day of which at most one reading lacks sgv, the second
\* derivative is the difference of consecutive smoothed first-derivative
\* values, and its smoothing is undefined at every index i < 8 and defined
\* at every index i >= 8 of the day.
C5_SecondDerivative ==
    (stage = "second" /\ Cardinality({p \in 1..Len(day_sgv) : day_sgv[p] = << >>}) <= 1) =>
        LET n == Len(day_sgv)
            m == day_cols.sgv_diff_smooth
            d2 == day_cols.sgv_diff2
            m2 == day_cols.sgv_diff2_smooth
        IN  /\ d2[1] = << >>
            /\ \A p \in 2..n : d2[p] = Sub(m[p], m[p - 1])
            /\ \A p \in 1..n : (p - 1 < 8) <=> (m2[p] = << >>)

\* ---------------------------------------------------------------- C6
\* the entries of the body dated on UTC day d, in response order
DayEntries(d) ==
    SelectSeq(entries[1], LAMBDA e : e.date # << >> /\ e.date[1] \div DayMs = d)

\* the derived columns of day d when the body holds that day's entries only
ColumnsAlone(d) ==
    LET rows == BuildFrame(DayEntries(d))
    IN  GroupColumns(rows, [i \in 1..Len(rows) |-> i])

\* the charts of day d when the body holds that day's entries only
ChartsAlone(d) ==
    LET rows == BuildFrame(DayEntries(d))
        shown == RenderGroup(rows, [date |-> d, idx |-> [i \in 1..Len(rows) |-> i]])
    IN  SelectSeq(shown, LAMBDA it : it.kind = "chart")

C7_LocalDate ==
    Successful =>
        \A g \in 1..Len(grouped) :
            \A k \in Range(grouped[g].idx) :
                LET ts == entries[1][df[k].index].date[1]
                IN  /\ grouped[g].date = (ts + tz) \div DayMs
                    /\ (start_date_unix <= ts /\ ts <= end_date_unix) =>
                           (start_date <= grouped[g].date /\ grouped[g].date <= end_date)

\* ---------------------------------------------------------------- C8
\* the items of out of the given kind, in order
Shown(kind) == SelectSeq(out, LAMBDA it : it.kind = kind)

\* C8: after a successful run the charts are, for each day of the body in
\* strictly ascending date order, raw then first then second derivative:
\* three per distinct day; the statistics panel appears once, after every
\* chart, and only its four lines follow it.
C8_RenderOrder ==
    Successful =>
        LET charts == Shown("chart")
            days == Cardinality(EntryDays)
            panels == {p \in Positions("subheader") :
                          out[p].what = "Glucose Statistics (Selected Date Range)"}
        IN  /\ Len(charts) = 3 * days
            /\ {charts[k].date[1] : k \in 1..Len(charts)} = EntryDays
            /\ \A k \in 1..days :
                  /\ charts[3 * k - 2].what = "raw"
                  /\ charts[3 * k - 1].what = "first"
                  /\ charts[3 * k].what = "second"
                  /\ charts[3 * k - 2].date = charts[3 * k - 1].date
                  /\ charts[3 * k - 1].date = charts[3 * k].date
            /\ \A k \in 1..(days - 1) : charts[3 * k].date[1] < charts[3 * k + 1].date[1]
            /\ Cardinality(panels) = 1
            /\ \A p \in panels :
                  /\ \A c \in Positions("chart") : c < p
                  /\ Len(out) = p + 4
                  /\ \A q \in (p + 1)..Len(out) : out[q].kind = "write"

\* a successful run over two days
C8_Witness ==
    /\ Successful
    /\ Cardinality(EntryDays) = 2
    /\ Len(Shown("chart")) = 6

\* ---------------------------------------------------------------- C9
\* C9: a run that parsed a body of zero entries shows the "no data"
\* warning and nothing else: no chart, no statistics, no error; it builds
\* no frame and no group.
C9_NoData ==
    (pc = "idle" /\ entries = << << >> >>) =>
        /\ Len(out) = 1
        /\ out[1].kind = "warning"
        /\ df = << >>
        /\ grouped = << >>

\* a 200 response with an empty list
C9_Witness ==
    /\ pc = "idle"
    /\ status_code = << 200 >>
    /\ entries = << << >> >>
    /\ Shown("warning") # << >>

\* ---------------------------------------------------------------- C10
\* a run that showed one error message and nothing else, parsed no entry,
\* built no frame and no group, and issued one request
C10_ErrorOnly ==
    /\ Len(out) = 1
    /\ out[1].kind = "error"
    /\ entries = << >>
    /\ df = << >>
    /\ grouped = << >>
    /\ Len(sent) = 1

\* C10 as stated: a run whose response has a status outside 200..299 ends
\* with exactly one error message, nothing parsed, no chart, no statistics,
\* and one request.
C10_NonSuccessStatus ==
    (pc = "idle" /\ status_code # << >> /\ ~(200 <= status_code[1] /\ status_code[1] < 300))
        => C10_ErrorOnly

\* C10 amended: a run whose response has a 4xx or 5xx status ends with
\* exactly one error message carrying the HTTP error, nothing parsed, no
\* chart, no statistics, and one request; no run issues a second request.
C10_HttpError ==
    /\ Len(sent) <= 1
    /\ (pc = "idle" /\ status_code # << >> /\ 400 <= status_code[1] /\ status_code[1] < 600)
          => /\ C10_ErrorOnly
             /\ out[1].what = "HTTP error occurred"
             /\ out[1].data = status_code

\* a run that ended on 404
C10_Witness ==
    /\ pc = "idle"
    /\ status_code = << 404 >>
    /\ Len(out) = 1
    /\ out[1].kind = "error"

====
